---- MODULE Spec2Model ----
(***************************************************************************)
(* Constant-product swap engine of the arithmetic-overflow program.        *)
(*                                                                         *)
(* secure_swap is translated from                                          *)
(* trident-tests/fuzz_targets/fuzz_arithmetic.rs.  The native type (u64)   *)
(* is modelled with Bits bits and the wide type (u128) with 2 * Bits bits, *)
(* so that every overflow case of the code exists at the model's scale.    *)
(*                                                                         *)
(* FuzzSpec: the pure function applied to every input vector               *)
(*           (SwapFuzzData) of the scaled native type.                     *)
(* Spec:     the pool of the on-chain program: initialize, then            *)
(*           vulnerable_swap and secure_swap instructions that commit      *)
(*           their engine's result.                                        *)
(* TradeSpec: sequences of secure_swap calls in either direction.          *)
(***************************************************************************)
EXTENDS Integers, Sequences, FiniteSets, TLC

\* width of the native integer type (u64, scaled); the wide type is twice as wide
Bits == 3

U64_MAX == 2^Bits - 1
U128_MAX == 2^(2 * Bits) - 1
U64 == 0..U64_MAX

\* fee rates tried at initialization (u16 values around the 10000 limit)
FeeChoices == {0, 30, 9999, 10000}
FeeLimit == 10000

\* minimum outputs tried by the pool's callers: no protection, any non-zero fill, the maximum
MinOutChoices == {0, 1, U64_MAX}

VARIABLES data, secure_result, vulnerable_result, pc, split, trades, pool, last, accounts,
          ghost

vars == <<data, secure_result, vulnerable_result, pc, split, trades, pool, last, accounts, ghost>>

\* the variables of the fuzz harness, and of the Anchor programs' ledger
fuzzVars == <<data, secure_result, vulnerable_result, pc, split, trades>>
chainVars == <<accounts, ghost>>

----------------------------------------------------------------------------
(* Option and Result values *)

None == [some |-> FALSE]
Some(v) == [some |-> TRUE, v |-> v]

Ok(amount_out, new_reserve_x, new_reserve_y) ==
    [ok |-> TRUE, amount_out |-> amount_out,
     new_reserve_x |-> new_reserve_x, new_reserve_y |-> new_reserve_y]
Err(e) == [ok |-> FALSE, err |-> e]

\* the static error strings of secure_swap
E_InvalidAmount == "InvalidAmount: amount_in is zero"
E_NumeratorOverflow == "MathOverflow: numerator overflow"
E_DenominatorOverflow == "MathOverflow: denominator overflow"
E_DivisionByZero == "MathOverflow: division by zero"
E_ResultTooLarge == "MathOverflow: result too large for u64"
E_Slippage == "SlippageExceeded: output below minimum"
E_InsufficientReserves == "InsufficientReserves: not enough Y in pool"
E_ReserveXOverflow == "MathOverflow: reserve_x overflow"
E_ReserveYUnderflow == "MathOverflow: reserve_y underflow"
\* vulnerable_swap yields no result when the wrapped denominator is zero
E_VulnerableDivisionByZero == "vulnerable_swap: denominator is zero"

MathOverflowErrors ==
    {E_NumeratorOverflow, E_DenominatorOverflow, E_DivisionByZero,
     E_ResultTooLarge, E_ReserveXOverflow, E_ReserveYUnderflow}

\* the error kind named before the colon of an error string
ErrKind(e) ==
    IF e = E_InvalidAmount THEN "InvalidAmount"
    ELSE IF e \in MathOverflowErrors THEN "MathOverflow"
    ELSE IF e = E_Slippage THEN "SlippageExceeded"
    ELSE IF e = E_InsufficientReserves THEN "InsufficientReserves"
    ELSE "Unknown"

----------------------------------------------------------------------------
(* Checked arithmetic of the two integer widths *)

\* bug: the product is taken in the native width and wraps
u128_checked_mul_native(a, b) == Some((a * b) % (U64_MAX + 1))
\* bug: the product is checked against the native width
u128_checked_mul_narrow(a, b) == IF a * b > U64_MAX THEN None ELSE Some(a * b)
u128_checked_mul(a, b) == IF a * b > U128_MAX THEN None ELSE Some(a * b)
u128_checked_add(a, b) == IF a + b > U128_MAX THEN None ELSE Some(a + b)
u64_try_from(x) == IF x > U64_MAX THEN None ELSE Some(x)
\* bug: wrapping_add in place of checked_add
u64_checked_add_wrapping(a, b) == Some((a + b) % (U64_MAX + 1))
\* bug: a plain addition, no overflow check
u64_checked_add_unchecked(a, b) == Some(a + b)
u64_checked_add(a, b) == IF a + b > U64_MAX THEN None ELSE Some(a + b)
\* bug: the subtraction is dropped and the minuend returned
u64_checked_sub_noop(a, b) == Some(a)
u64_checked_sub(a, b) == IF a < b THEN None ELSE Some(a - b)

u64_wrapping_mul(a, b) == (a * b) % (U64_MAX + 1)
u64_wrapping_add(a, b) == (a + b) % (U64_MAX + 1)
u64_wrapping_sub(a, b) == (a - b) % (U64_MAX + 1)

----------------------------------------------------------------------------
(* vulnerable_swap: raw native-width arithmetic, no slippage check *)

vulnerable_swap(amount_in, reserve_x, reserve_y) ==
    LET numerator == u64_wrapping_mul(amount_in, reserve_y)
        denominator == u64_wrapping_add(reserve_x, amount_in)
    IN  IF denominator = 0 THEN None
        ELSE
        LET amount_out == numerator \div denominator
            new_reserve_x == u64_wrapping_add(reserve_x, amount_in)
            new_reserve_y == u64_wrapping_sub(reserve_y, amount_out)
        IN  Some([amount_out |-> amount_out, new_reserve_x |-> new_reserve_x,
                  new_reserve_y |-> new_reserve_y])

----------------------------------------------------------------------------
(* secure_swap: checked arithmetic and wide intermediates *)

\* the three rejection conditions of secure_swap
\* bug: the zero-amount check is missing
invalid_amount_never(amount_in) == FALSE
invalid_amount(amount_in) == amount_in = 0
\* bug: no slippage check
slippage_exceeded_never(amount_out, min_out) == FALSE
\* bug: a fill equal to the minimum is rejected
slippage_exceeded_inclusive(amount_out, min_out) == amount_out <= min_out
slippage_exceeded(amount_out, min_out) == amount_out < min_out
insufficient_reserves(amount_out, reserve_y) == amount_out > reserve_y

\* bug: native wrapping arithmetic throughout, no reserve checks
secure_swap_wrapping(amount_in, min_out, reserve_x, reserve_y) ==
    IF amount_in = 0 THEN Err(E_InvalidAmount)
    ELSE
    LET numerator == (amount_in * reserve_y) % (U64_MAX + 1)
        denominator == (reserve_x + amount_in) % (U64_MAX + 1)
    IN  IF denominator = 0 THEN Err(E_DivisionByZero)
        ELSE
        LET amount_out == numerator \div denominator
        IN  IF amount_out < min_out THEN Err(E_Slippage)
            ELSE Ok(amount_out, denominator,
                    (reserve_y - amount_out) % (U64_MAX + 1))

secure_swap(amount_in, min_out, reserve_x, reserve_y) ==
    IF invalid_amount(amount_in) THEN Err(E_InvalidAmount)
    ELSE
    LET numerator == u128_checked_mul(amount_in, reserve_y)
        denominator == u128_checked_add(reserve_x, amount_in)
    IN  IF ~numerator.some THEN Err(E_NumeratorOverflow)
        ELSE IF ~denominator.some THEN Err(E_DenominatorOverflow)
        ELSE IF denominator.v = 0 THEN Err(E_DivisionByZero)
        ELSE
        LET amount_out_u128 == numerator.v \div denominator.v
            amount_out == u64_try_from(amount_out_u128)
        IN  IF ~amount_out.some THEN Err(E_ResultTooLarge)
            ELSE IF slippage_exceeded(amount_out.v, min_out) THEN Err(E_Slippage)
            ELSE IF insufficient_reserves(amount_out.v, reserve_y) THEN Err(E_InsufficientReserves)
            ELSE
            LET new_reserve_x == u64_checked_add(reserve_x, amount_in)
                new_reserve_y == u64_checked_sub(reserve_y, amount_out.v)
            IN  IF ~new_reserve_x.some THEN Err(E_ReserveXOverflow)
                ELSE IF ~new_reserve_y.some THEN Err(E_ReserveYUnderflow)
                ELSE Ok(amount_out.v, new_reserve_x.v, new_reserve_y.v)

----------------------------------------------------------------------------
(* The fuzz harness: one input vector, one call *)

SwapFuzzData ==
    [amount_in : U64, min_out : U64,
     initial_reserve_x : U64, initial_reserve_y : U64]

NotRun == Err("NotRun")

\* the pool account before initialize
NoPool == [initialized |-> FALSE, reserve_x |-> 0, reserve_y |-> 0, fee_bps |-> 0]
NoCall == [op |-> "none", args |-> <<>>, pre |-> NoPool, result |-> NotRun]
NoData == [amount_in |-> 0, min_out |-> 0, initial_reserve_x |-> 0, initial_reserve_y |-> 0]

\* no ledger: the harness and the pool touch no account of the other programs
\* no split-trade comparison in progress
NoSplit == [a1 |-> 0, a2 |-> 0, reserve_x |-> 0, reserve_y |-> 0,
            first |-> NotRun, second |-> NotRun, single |-> NotRun]
\* no sequence of trades in progress
NoTrades == [reserve_x |-> 0, reserve_y |-> 0, pre_x |-> 0, pre_y |-> 0,
             direction |-> "none", done |-> {},
             amount_in |-> 0, min_out |-> 0, result |-> NotRun]
NoAccounts == <<>>
NoGhost == <<>>

FuzzInit ==
    /\ data \in SwapFuzzData
    /\ secure_result = NotRun
    /\ vulnerable_result = NotRun
    /\ pc = "start"
    /\ split = NoSplit
    /\ trades = NoTrades
    /\ pool = NoPool
    /\ last = NoCall
    /\ accounts = NoAccounts
    /\ ghost = NoGhost

RunSecureSwap ==
    /\ pc = "start"
    /\ secure_result' = secure_swap(data.amount_in, data.min_out,
                                    data.initial_reserve_x, data.initial_reserve_y)
    /\ pc' = "done"
    /\ UNCHANGED <<data, vulnerable_result, split, trades, pool, last, chainVars>>

\* the harness also runs the vulnerable version on the same input vector
RunVulnerableSwap ==
    /\ vulnerable_result = NotRun
    /\ vulnerable_result' = vulnerable_swap(data.amount_in, data.initial_reserve_x,
                                            data.initial_reserve_y)
    /\ UNCHANGED <<data, secure_result, pc, split, trades, pool, last, chainVars>>

FuzzNext == RunSecureSwap \/ RunVulnerableSwap

FuzzSpec == FuzzInit /\ [][FuzzNext]_vars

----------------------------------------------------------------------------
(* A trade of a1 + a2 made in two parts, against the same trade made at once *)

SplitData ==
    {[NoSplit EXCEPT !.a1 = a1, !.a2 = a2, !.reserve_x = x, !.reserve_y = y] :
        a1 \in U64, a2 \in U64, x \in U64, y \in U64}

SplitInit ==
    /\ data = NoData
    /\ secure_result = NotRun
    /\ vulnerable_result = NotRun
    /\ pc = "idle"
    /\ split \in SplitData
    /\ trades = NoTrades
    /\ pool = NoPool
    /\ last = NoCall
    /\ accounts = NoAccounts
    /\ ghost = NoGhost

splitFrame == <<data, secure_result, vulnerable_result, pc, trades, pool, last, accounts, ghost>>

\* the first part, against the original reserves
SplitFirst ==
    /\ split.first = NotRun
    /\ split' = [split EXCEPT !.first =
                    secure_swap(split.a1, 0, split.reserve_x, split.reserve_y)]
    /\ UNCHANGED splitFrame

\* the second part, against the reserves the first part left
SplitSecond ==
    /\ split.first.ok
    /\ split.second = NotRun
    /\ split' = [split EXCEPT !.second =
                    secure_swap(split.a2, 0, split.first.new_reserve_x,
                                split.first.new_reserve_y)]
    /\ UNCHANGED splitFrame

\* the whole amount at once, against the original reserves; the amount is a u64
SplitSingle ==
    /\ split.single = NotRun
    /\ split.a1 + split.a2 <= U64_MAX
    /\ split' = [split EXCEPT !.single =
                    secure_swap(split.a1 + split.a2, 0, split.reserve_x, split.reserve_y)]
    /\ UNCHANGED splitFrame

SplitNext == SplitFirst \/ SplitSecond \/ SplitSingle

SplitSpec == SplitInit /\ [][SplitNext]_vars

----------------------------------------------------------------------------
(* A sequence of trades in either direction, each applied to the reserves the   *)
(* previous one left: secure_swap with (reserve_x, reserve_y) for X -> Y and    *)
(* with (reserve_y, reserve_x) for Y -> X                                       *)

TradeStarts ==
    {[NoTrades EXCEPT !.reserve_x = x, !.reserve_y = y] :
        x \in U64 \ {0}, y \in U64 \ {0}}

TradeInit ==
    /\ data = NoData
    /\ secure_result = NotRun
    /\ vulnerable_result = NotRun
    /\ pc = "idle"
    /\ split = NoSplit
    /\ trades \in TradeStarts
    /\ pool = NoPool
    /\ last = NoCall
    /\ accounts = NoAccounts
    /\ ghost = NoGhost

tradeFrame == <<data, secure_result, vulnerable_result, pc, split, pool, last, accounts, ghost>>

\* the reserves and the record of one more trade; a failed trade leaves the reserves
Traded(t, direction, amount_in, min_out, r, new_x, new_y) ==
    [reserve_x |-> IF r.ok THEN new_x ELSE t.reserve_x,
     reserve_y |-> IF r.ok THEN new_y ELSE t.reserve_y,
     pre_x |-> t.reserve_x, pre_y |-> t.reserve_y,
     direction |-> direction,
     done |-> IF r.ok THEN t.done \cup {direction} ELSE t.done,
     amount_in |-> amount_in, min_out |-> min_out, result |-> r]

TradeXForY ==
    /\ \E amount_in \in U64, min_out \in MinOutChoices :
        LET r == secure_swap(amount_in, min_out, trades.reserve_x, trades.reserve_y)
        IN  trades' = Traded(trades, "x_for_y", amount_in, min_out, r,
                             IF r.ok THEN r.new_reserve_x ELSE 0,
                             IF r.ok THEN r.new_reserve_y ELSE 0)
    /\ UNCHANGED tradeFrame

TradeYForX ==
    /\ \E amount_in \in U64, min_out \in MinOutChoices :
        LET r == secure_swap(amount_in, min_out, trades.reserve_y, trades.reserve_x)
        IN  trades' = Traded(trades, "y_for_x", amount_in, min_out, r,
                             IF r.ok THEN r.new_reserve_y ELSE 0,
                             IF r.ok THEN r.new_reserve_x ELSE 0)
    /\ UNCHANGED tradeFrame

TradeNext == TradeXForY \/ TradeYForX

TradeSpec == TradeInit /\ [][TradeNext]_vars

----------------------------------------------------------------------------
(* The pool of the on-chain program *)

\* bug: an empty side is accepted
initialize_empty_side(initial_x, initial_y, fee_bps) ==
    IF fee_bps >= FeeLimit THEN Err("InvalidFee") ELSE [ok |-> TRUE]

\* initialize(initial_x, initial_y, fee_bps) of the Reserve Pool Model
initialize(initial_x, initial_y, fee_bps) ==
    IF initial_x = 0 \/ initial_y = 0 THEN Err("InvalidAmount")
    ELSE IF fee_bps >= FeeLimit THEN Err("InvalidFee")
    ELSE [ok |-> TRUE]

\* apply(new_x, new_y): overwrites both reserves
apply(p, new_x, new_y) == [p EXCEPT !.reserve_x = new_x, !.reserve_y = new_y]

\* bug: reserve_x is written before the engine's verdict is known
swap_x_for_y_partial(p, amount_in, min_out) ==
    LET r == secure_swap(amount_in, min_out, p.reserve_x, p.reserve_y)
        moved == (p.reserve_x + amount_in) % (U64_MAX + 1)
    IN  IF r.ok THEN apply(p, r.new_reserve_x, r.new_reserve_y)
        ELSE [p EXCEPT !.reserve_x = moved]

\* SecureSwap::swap_x_for_y: run the engine on the pool's reserves, commit on success
swap_x_for_y(p, amount_in, min_out) ==
    LET r == secure_swap(amount_in, min_out, p.reserve_x, p.reserve_y)
    IN  IF r.ok THEN apply(p, r.new_reserve_x, r.new_reserve_y) ELSE p

\* VulnerableSwap::swap_x_for_y: the wrapping computation, committed whenever it
\* yields a result; min_out is not looked at
vulnerable_swap_x_for_y(p, amount_in, min_out) ==
    LET r == vulnerable_swap(amount_in, p.reserve_x, p.reserve_y)
    IN  IF r.some THEN apply(p, r.v.new_reserve_x, r.v.new_reserve_y) ELSE p

\* what the vulnerable instruction returns: the amount paid, or a failure when the
\* wrapped denominator is zero
vulnerable_swap_result(p, amount_in) ==
    LET r == vulnerable_swap(amount_in, p.reserve_x, p.reserve_y)
    IN  IF r.some THEN Ok(r.v.amount_out, r.v.new_reserve_x, r.v.new_reserve_y)
        ELSE Err(E_VulnerableDivisionByZero)

Init ==
    /\ data = NoData
    /\ secure_result = NotRun
    /\ vulnerable_result = NotRun
    /\ pc = "idle"
    /\ split = NoSplit
    /\ trades = NoTrades
    /\ pool = NoPool
    /\ last = NoCall
    /\ accounts = NoAccounts
    /\ ghost = NoGhost

\* the pool account is created once: the instruction runs only while it does not exist
Initialize ==
    /\ ~pool.initialized
    /\ \E initial_x \in U64, initial_y \in U64, fee_bps \in FeeChoices :
        LET r == initialize(initial_x, initial_y, fee_bps)
        IN  /\ pool' = IF r.ok
                       THEN [initialized |-> TRUE, reserve_x |-> initial_x,
                             reserve_y |-> initial_y, fee_bps |-> fee_bps]
                       ELSE pool
            /\ last' = [op |-> "initialize",
                        args |-> [initial_x |-> initial_x, initial_y |-> initial_y,
                                  fee_bps |-> fee_bps],
                        pre |-> pool, result |-> r]
            /\ UNCHANGED <<fuzzVars, chainVars>>

SecureSwap ==
    /\ pool.initialized
    /\ \E amount_in \in U64, min_out \in MinOutChoices :
        /\ pool' = swap_x_for_y(pool, amount_in, min_out)
        /\ last' = [op |-> "secure_swap",
                    args |-> [amount_in |-> amount_in, min_out |-> min_out],
                    pre |-> pool,
                    result |-> secure_swap(amount_in, min_out, pool.reserve_x, pool.reserve_y)]
    /\ UNCHANGED <<fuzzVars, chainVars>>

VulnerableSwap ==
    /\ pool.initialized
    /\ \E amount_in \in U64, min_out \in MinOutChoices :
        /\ pool' = vulnerable_swap_x_for_y(pool, amount_in, min_out)
        /\ last' = [op |-> "vulnerable_swap",
                    args |-> [amount_in |-> amount_in, min_out |-> min_out],
                    pre |-> pool,
                    result |-> vulnerable_swap_result(pool, amount_in)]
    /\ UNCHANGED <<fuzzVars, chainVars>>

Next == Initialize \/ VulnerableSwap \/ SecureSwap

Spec == Init /\ [][Next]_vars

----------------------------------------------------------------------------
(* Properties of the engine as a function (FuzzSpec) *)

Done == pc = "done"
AmountIn == data.amount_in
MinOut == data.min_out
ReserveX == data.initial_reserve_x
ReserveY == data.initial_reserve_y
Succeeded == Done /\ secure_result.ok
Failed == Done /\ ~secure_result.ok
FailedWith(kind) == Failed /\ ErrKind(secure_result.err) = kind

\* the exact output: floor(amount_in * reserve_y / (reserve_x + amount_in)), no width limit
ExactOut == (AmountIn * ReserveY) \div (ReserveX + AmountIn)
ExactRem == (AmountIn * ReserveY) % (ReserveX + AmountIn)

\* C1: with amount_in > 0 and both reserves > 0, a successful secure_swap returns
\* exactly the unbounded-precision quotient truncated toward zero.
C1_OracleAgreement ==
    (Succeeded /\ AmountIn > 0 /\ ReserveX > 0 /\ ReserveY > 0)
        => secure_result.amount_out = ExactOut

\* a successful swap whose exact quotient has a remainder and whose native product wraps
C1_Witness ==
    /\ Succeeded /\ AmountIn > 0 /\ ReserveX > 0 /\ ReserveY > 0
    /\ ExactRem # 0
    /\ AmountIn * ReserveY > U64_MAX
    /\ secure_result.amount_out > 0

\* C3: on success the pool pays out at most the output-side reserve it held, and the
\* new output-side reserve is at most the old one, whatever the inputs.
C3_Solvency ==
    Succeeded => /\ secure_result.amount_out <= ReserveY
                 /\ secure_result.new_reserve_y <= ReserveY

\* a successful swap that pays out nearly the whole output-side reserve
C3_Witness ==
    /\ Succeeded
    /\ secure_result.amount_out > 0
    /\ secure_result.amount_out = ReserveY - 1
    /\ secure_result.new_reserve_y = 1

\* C4: on success new_reserve_x = reserve_x + amount_in and
\* new_reserve_y = reserve_y - amount_out, both exactly (no wraparound).
C4_ReserveUpdate ==
    Succeeded => /\ secure_result.new_reserve_x = ReserveX + AmountIn
                 /\ secure_result.new_reserve_x > ReserveX
                 /\ secure_result.new_reserve_y = ReserveY - secure_result.amount_out
                 /\ secure_result.new_reserve_y <= ReserveY

\* a successful swap that fills the input-side reserve to the native maximum
C4_Witness ==
    /\ Succeeded
    /\ secure_result.new_reserve_x = U64_MAX
    /\ secure_result.amount_out > 0
    /\ secure_result.new_reserve_y < ReserveY

\* C5 as stated: for all inputs whose exact output is below min_out the call returns
\* SlippageExceeded (the exact output is defined when reserve_x + amount_in > 0).
C5_Original ==
    (Done /\ ReserveX + AmountIn > 0 /\ ExactOut < MinOut)
        => FailedWith("SlippageExceeded")

\* C5 amended: for all inputs with amount_in > 0 whose exact output is below min_out
\* the call returns SlippageExceeded.
C5_SlippageEnforcement ==
    (Done /\ AmountIn > 0 /\ ExactOut < MinOut)
        => FailedWith("SlippageExceeded")

\* a positive fill below the minimum, on inputs whose reserve_x update would also overflow
C5_Witness ==
    /\ Done /\ AmountIn > 0
    /\ ExactOut > 0 /\ ExactOut < MinOut
    /\ ReserveX + AmountIn > U64_MAX
    /\ secure_result = Err(E_Slippage)

\* C6: on success amount_out >= min_out; an output equal to min_out is not rejected
\* for slippage; min_out = 0 never yields SlippageExceeded.
C6_SlippageBound ==
    /\ Succeeded => secure_result.amount_out >= MinOut
    /\ (Done /\ AmountIn > 0 /\ ExactOut = MinOut) => ~FailedWith("SlippageExceeded")
    /\ (Done /\ AmountIn > 0 /\ ExactOut = MinOut /\ ReserveX + AmountIn <= U64_MAX)
          => Succeeded
    /\ (Done /\ MinOut = 0) => ~FailedWith("SlippageExceeded")

\* a successful swap whose output equals a non-zero minimum exactly
C6_Witness ==
    /\ Succeeded
    /\ MinOut > 0
    /\ secure_result.amount_out = MinOut

\* C7: amount_in = 0 yields InvalidAmount for every min_out and every reserves,
\* zero reserves included.
C7_ZeroAmount ==
    (Done /\ AmountIn = 0) => secure_result = Err(E_InvalidAmount)

\* the zero amount on an empty pool, where the denominator would be zero
C7_Witness ==
    /\ Done /\ AmountIn = 0
    /\ ReserveX = 0 /\ ReserveY = 0 /\ MinOut > 0
    /\ secure_result = Err(E_InvalidAmount)

\* C9 as stated: every successful swap (of a pool with two positive reserves) has
\* new_reserve_x > reserve_x and new_reserve_y < reserve_y.
C9_Original ==
    (Succeeded /\ ReserveX > 0 /\ ReserveY > 0)
        => /\ secure_result.new_reserve_x > ReserveX
           /\ secure_result.new_reserve_y < ReserveY

\* C9 amended: every successful swap has new_reserve_x > reserve_x and
\* new_reserve_y <= reserve_y, with new_reserve_y < reserve_y exactly when amount_out > 0.
C9_ReservesMove ==
    Succeeded => /\ secure_result.new_reserve_x > ReserveX
                 /\ secure_result.new_reserve_y <= ReserveY
                 /\ (secure_result.new_reserve_y < ReserveY) <=> (secure_result.amount_out > 0)

\* a successful swap of positive reserves that pays nothing and leaves reserve_y as it was
C9_Witness ==
    /\ Succeeded
    /\ ReserveX > 0 /\ ReserveY > 0
    /\ secure_result.amount_out = 0
    /\ secure_result.new_reserve_x > ReserveX
    /\ secure_result.new_reserve_y = ReserveY

\* C10 as stated: with reserve_x = 0 or reserve_y = 0 the call returns an error
\* for every amount_in and min_out.
C10_ZeroReserveRejected ==
    (Done /\ (ReserveX = 0 \/ ReserveY = 0)) => Failed


VulnerableRan == vulnerable_result # NotRun
\* the native-width product or sum of vulnerable_swap exceeds the native range
VulnerableWraps == AmountIn * ReserveY > U64_MAX \/ ReserveX + AmountIn > U64_MAX

\* C12 as stated: on every input (here: of positive reserves) on which the native-width
\* computation of vulnerable_swap wraps, secure_swap returns an error.
C12_Original ==
    (Done /\ VulnerableRan /\ VulnerableWraps /\ ReserveX > 0 /\ ReserveY > 0) => Failed

\* C12 amended: on every input on which vulnerable_swap wraps, secure_swap returns an
\* error or the exact unwrapped output and reserves; it returns an error whenever
\* reserve_x + amount_in exceeds the native range.
C12_VulnerableVsSecure ==
    (Done /\ VulnerableRan /\ VulnerableWraps)
        => /\ (ReserveX + AmountIn > U64_MAX) => Failed
           /\ Succeeded => /\ secure_result.amount_out = ExactOut
                           /\ secure_result.new_reserve_x = ReserveX + AmountIn
                           /\ secure_result.new_reserve_y = ReserveY - ExactOut

\* the product wraps, the vulnerable version returns a wrong output, the secure one the exact one
C12_Witness ==
    /\ Done /\ VulnerableRan
    /\ AmountIn * ReserveY > U64_MAX
    /\ ReserveX > 0 /\ ReserveY > 0
    /\ Succeeded
    /\ vulnerable_result.some
    /\ vulnerable_result.v.amount_out # secure_result.amount_out
    /\ secure_result.amount_out = ExactOut

\* the error kinds of the engine's taxonomy
TaxonomyKinds == {"InvalidAmount", "MathOverflow", "SlippageExceeded", "InsufficientReserves"}

\* C20: on every combination of native-width inputs the call is defined and returns
\* either a success triple of native-width values or one typed error of the taxonomy.
C20_Totality ==
    /\ (pc = "start") => ENABLED RunSecureSwap
    /\ Done => \/ /\ secure_result.ok
                  /\ secure_result.amount_out \in U64
                  /\ secure_result.new_reserve_x \in U64
                  /\ secure_result.new_reserve_y \in U64
               \/ /\ ~secure_result.ok
                  /\ ErrKind(secure_result.err) \in TaxonomyKinds

\* the call on the largest value of every input
C20_Witness ==
    /\ Done
    /\ AmountIn = U64_MAX /\ MinOut = U64_MAX
    /\ ReserveX = U64_MAX /\ ReserveY = U64_MAX
    /\ FailedWith("SlippageExceeded")

----------------------------------------------------------------------------
(* Properties of the pool (Spec) *)

SwapCalled == last.op = "secure_swap"
VulnerableSwapCalled == last.op = "vulnerable_swap"
AnySwapCalled == SwapCalled \/ VulnerableSwapCalled

\* C8: a swap call that returns an error leaves reserve_x, reserve_y and fee_bps of the
\* pool exactly as they were before the call.
C8_AtomicFailure ==
    (AnySwapCalled /\ ~last.result.ok) => pool = last.pre

\* a swap rejected at the last step, after amount_out was computed, on an untouched pool
C8_Witness ==
    /\ SwapCalled
    /\ last.result = Err(E_ReserveXOverflow)
    /\ pool.reserve_x = last.pre.reserve_x
    /\ pool.reserve_y = last.pre.reserve_y
    /\ pool.fee_bps = last.pre.fee_bps

\* C11: initialize fails and creates no pool when initial_x = 0, initial_y = 0 or
\* fee_bps >= 10000; a created pool has two positive reserves and a fee below 10000, and
\* swaps run only on a created pool.
C11_InitializeRejects ==
    /\ (last.op = "initialize"
          /\ (last.args.initial_x = 0 \/ last.args.initial_y = 0
                \/ last.args.fee_bps >= 10000))
        => (~last.result.ok /\ ~pool.initialized /\ pool = NoPool)
    /\ (last.op = "initialize" /\ last.result.ok)
        => (pool.initialized /\ pool.reserve_x > 0 /\ pool.reserve_y > 0)
    /\ pool.initialized => pool.fee_bps < 10000
    /\ AnySwapCalled => last.pre.initialized

\* an initialize with an empty X side and a valid fee, rejected
C11_Witness ==
    /\ last.op = "initialize"
    /\ last.args.initial_x = 0 /\ last.args.initial_y > 0 /\ last.args.fee_bps < 10000
    /\ ~last.result.ok
    /\ ~pool.initialized

----------------------------------------------------------------------------
(* The ledger of the Anchor programs.                                      *)
(*                                                                         *)
(* Every account has lamports, an owner and data.  The instructions of the *)
(* programs reach the ledger through Anchor's account constraints and      *)
(* through the System Program (transfer, create_account, allocate and      *)
(* assign), whose checks are modelled as the runtime applies them.  A      *)
(* failed instruction leaves the ledger unchanged.  Transaction fees and   *)
(* the rent state of wallets are not modelled.                             *)
(***************************************************************************)

\* rent-exempt minimum of a program account (scaled)
Rent == 2

\* what a wallet holds at the start
WalletLamports == 2 * Rent + 1

SYSTEM_PROGRAM == "system_program"
THIS_PROGRAM == "program"

\* Pubkey::default() and the bump of a zeroed account; the canonical bump of every PDA
DefaultPubkey == <<"default">>
ZeroBump == 0
CanonicalBump == 255

Wallet(name) == <<"wallet", name>>
\* Pubkey::find_program_address: one address per seed list, none of them a wallet
find_program_address(seeds) == <<"pda", seeds>>

NoAccountData == [kind |-> "none"]
SystemAccount(lamports) ==
    [lamports |-> lamports, owner |-> SYSTEM_PROGRAM, data |-> NoAccountData]

TxOk(acc) == [ok |-> TRUE, accounts |-> acc]

E_AccountNotSigner == "AccountNotSigner"
E_AccountNotInitialized == "AccountNotInitialized"
E_AccountOwnedByWrongProgram == "AccountOwnedByWrongProgram"
E_AccountDiscriminatorMismatch == "AccountDiscriminatorMismatch"
E_AccountNotSystemOwned == "AccountNotSystemOwned"
E_ConstraintSeeds == "ConstraintSeeds"
E_TryingToInitPayerAsProgramAccount == "TryingToInitPayerAsProgramAccount"
E_PrivilegeEscalation == "Cross-program invocation with unauthorized signer or writable account"
E_AccountAlreadyInUse == "AccountAlreadyInUse"
E_FromMustNotCarryData == "Transfer: from must not carry data"
E_InsufficientFunds == "InsufficientFunds"

(* System Program *)

\* transfer: from signs, is a plain system account, and holds the lamports
system_transfer(acc, from, to, lamports, signers) ==
    IF from \notin signers THEN Err(E_PrivilegeEscalation)
    ELSE IF acc[from].data.kind # "none" \/ acc[from].owner # SYSTEM_PROGRAM
         THEN Err(E_FromMustNotCarryData)
    ELSE IF lamports > acc[from].lamports THEN Err(E_InsufficientFunds)
    ELSE IF from = to THEN TxOk(acc)
    ELSE TxOk([acc EXCEPT ![from].lamports = @ - lamports,
                          ![to].lamports = @ + lamports])

\* allocate + assign: the account signs, is unused, and becomes a program account
system_allocate_assign(acc, account, data0, signers) ==
    IF account \notin signers THEN Err(E_PrivilegeEscalation)
    ELSE IF acc[account].data.kind # "none" \/ acc[account].owner # SYSTEM_PROGRAM
         THEN Err(E_AccountAlreadyInUse)
    ELSE TxOk([acc EXCEPT ![account].owner = THIS_PROGRAM, ![account].data = data0])

\* create_account: both accounts sign, the new address holds no lamports
system_create_account(acc, from, to, lamports, data0, signers) ==
    IF from \notin signers \/ to \notin signers THEN Err(E_PrivilegeEscalation)
    ELSE IF acc[to].lamports > 0 THEN Err(E_AccountAlreadyInUse)
    ELSE
    LET allocated == system_allocate_assign(acc, to, data0, signers)
    IN  IF ~allocated.ok THEN allocated
        ELSE system_transfer(allocated.accounts, from, to, lamports, signers)

(* Anchor account types and constraints *)

\* Signer: the account signed the transaction
is_signer_unchecked(account, signers) == TRUE
is_signer(account, signers) == account \in signers

\* Account of T: owned by the program, with the discriminator of T
check_account(acc, account, kind) ==
    IF acc[account].owner = SYSTEM_PROGRAM /\ acc[account].lamports = 0
    THEN Err(E_AccountNotInitialized)
    ELSE IF acc[account].owner # THIS_PROGRAM THEN Err(E_AccountOwnedByWrongProgram)
    ELSE IF acc[account].data.kind # kind THEN Err(E_AccountDiscriminatorMismatch)
    ELSE TxOk(acc)

\* seeds = [...], bump = <stored bump>: the address derived with that bump is the account
check_seeds(account, seeds, bump) ==
    account = find_program_address(seeds) /\ bump = CanonicalBump

\* init, payer = <payer>: create the PDA, or fund, allocate and assign a pre-funded one;
\* only the new account signs through its seeds
anchor_init(acc, payer, field, data0, signers) ==
    IF acc[field].lamports = 0
    THEN system_create_account(acc, payer, field, Rent, data0, signers \cup {field})
    ELSE IF payer = field THEN Err(E_TryingToInitPayerAsProgramAccount)
    ELSE
    LET required_lamports ==
            IF Rent > acc[field].lamports THEN Rent - acc[field].lamports ELSE 0
        funded == IF required_lamports > 0
                  THEN system_transfer(acc, payer, field, required_lamports, signers)
                  ELSE TxOk(acc)
    IN  IF ~funded.ok THEN funded
        ELSE system_allocate_assign(funded.accounts, field, data0, signers \cup {field})

\* the fuzz harness and the pool are idle while an Anchor program runs
ChainIdle ==
    /\ data = NoData
    /\ secure_result = NotRun
    /\ vulnerable_result = NotRun
    /\ pc = "idle"
    /\ split = NoSplit
    /\ trades = NoTrades
    /\ pool = NoPool

\* a transaction is atomic: its effects are kept only if the instruction succeeded
Commit(op, args, r) ==
    /\ accounts' = IF r.ok THEN r.accounts ELSE accounts
    /\ last' = [op |-> op, args |-> args, pre |-> accounts,
                result |-> IF r.ok THEN [ok |-> TRUE] ELSE r]
    /\ UNCHANGED <<fuzzVars, pool>>

----------------------------------------------------------------------------
(* signer-authorization: a vault PDA per authority                         *)
(***************************************************************************)

E_UnauthorizedAuthority == "UnauthorizedAuthority"

VaultUsers == {"authority", "attacker"}
VaultWallets == {Wallet(u) : u \in VaultUsers}
Destination == Wallet("destination")
get_vault_pda(authority) == find_program_address(<<"vault", authority>>)
VaultPdas == {get_vault_pda(w) : w \in VaultWallets}
VaultAddresses == VaultWallets \cup {Destination} \cup VaultPdas
VaultSignerSets == (SUBSET VaultWallets) \ {{}}
VaultAmounts == {1, Rent}

\* state.rs: Vault { authority, bump }
Vault(authority, bump) == [kind |-> "Vault", authority |-> authority, bump |-> bump]

\* #[derive(Accounts)] Initialize: authority signs; the vault PDA is created
Initialize_accounts(acc, authority, vault, signers) ==
    IF ~is_signer(authority, signers) THEN Err(E_AccountNotSigner)
    ELSE IF vault # get_vault_pda(authority) THEN Err(E_ConstraintSeeds)
    ELSE anchor_init(acc, authority, vault, Vault(DefaultPubkey, ZeroBump), signers)

\* initialize: records the authority and the bump in the new vault
vault_initialize(acc, authority, vault, signers) ==
    LET ctx == Initialize_accounts(acc, authority, vault, signers)
    IN  IF ~ctx.ok THEN ctx
        ELSE TxOk([ctx.accounts EXCEPT ![vault].data = Vault(authority, CanonicalBump)])

\* deposit: under the Initialize accounts, transfers amount from the authority to the vault
vault_deposit(acc, authority, vault, amount, signers) ==
    LET ctx == Initialize_accounts(acc, authority, vault, signers)
    IN  IF ~ctx.ok THEN ctx
        ELSE system_transfer(ctx.accounts, authority, vault, amount, signers)

\* SystemAccount: owned by the System Program
check_system_account(acc, account) ==
    IF acc[account].owner # SYSTEM_PROGRAM THEN Err(E_AccountNotSystemOwned)
    ELSE TxOk(acc)

\* the PDA that signs a CPI made with seeds [b"vault", authority, bump]
vault_signer(authority, bump) ==
    IF bump = CanonicalBump THEN {get_vault_pda(authority)} ELSE {}

\* #[derive(Accounts)] SecureWithdraw
SecureWithdraw_accounts(acc, vault, authority, destination, signers) ==
    LET loaded == check_account(acc, vault, "Vault")
    IN  IF ~loaded.ok THEN loaded
        ELSE IF ~is_signer(authority, signers) THEN Err(E_AccountNotSigner)
        ELSE IF ~check_system_account(acc, destination).ok
             THEN check_system_account(acc, destination)
        ELSE IF ~check_seeds(vault, <<"vault", authority>>, acc[vault].data.bump)
             THEN Err(E_ConstraintSeeds)
        ELSE IF acc[vault].data.authority # authority THEN Err(E_UnauthorizedAuthority)
        ELSE TxOk(acc)

\* SecureWithdraw::withdraw
secure_withdraw(acc, vault, authority, destination, amount, signers) ==
    LET ctx == SecureWithdraw_accounts(acc, vault, authority, destination, signers)
    IN  IF ~ctx.ok THEN ctx
        ELSE system_transfer(acc, vault, destination, amount,
                             signers \cup vault_signer(authority, acc[vault].data.bump))

\* #[derive(Accounts)] InsecureWithdraw: the authority is a bare AccountInfo
InsecureWithdraw_accounts(acc, vault, authority, destination, signers) ==
    LET loaded == check_account(acc, vault, "Vault")
    IN  IF ~loaded.ok THEN loaded
        ELSE IF ~check_system_account(acc, destination).ok
             THEN check_system_account(acc, destination)
        ELSE IF ~check_seeds(vault, <<"vault", authority>>, acc[vault].data.bump)
             THEN Err(E_ConstraintSeeds)
        ELSE TxOk(acc)

\* InsecureWithdraw::withdraw
insecure_withdraw(acc, vault, authority, destination, amount, signers) ==
    LET ctx == InsecureWithdraw_accounts(acc, vault, authority, destination, signers)
    IN  IF ~ctx.ok THEN ctx
        ELSE system_transfer(acc, vault, destination, amount,
                             signers \cup vault_signer(authority, acc[vault].data.bump))

VaultInit ==
    /\ ChainIdle
    /\ accounts = [a \in VaultAddresses |->
                      IF a \in VaultWallets THEN SystemAccount(WalletLamports)
                      ELSE SystemAccount(0)]
    /\ ghost = NoGhost
    /\ last = NoCall

VaultInitialize ==
    \E authority \in VaultWallets, vault \in VaultPdas, signers \in VaultSignerSets :
        /\ Commit("initialize",
                  [authority |-> authority, vault |-> vault, signers |-> signers],
                  vault_initialize(accounts, authority, vault, signers))
        /\ UNCHANGED ghost

VaultDeposit ==
    \E authority \in VaultWallets, vault \in VaultPdas, amount \in VaultAmounts,
       signers \in VaultSignerSets :
        /\ Commit("deposit",
                  [authority |-> authority, vault |-> vault, amount |-> amount,
                   signers |-> signers],
                  vault_deposit(accounts, authority, vault, amount, signers))
        /\ UNCHANGED ghost

VulnerableWithdraw ==
    \E vault \in VaultPdas, authority \in VaultWallets, amount \in VaultAmounts,
       signers \in VaultSignerSets :
        /\ Commit("vulnerable_withdraw",
                  [vault |-> vault, authority |-> authority, destination |-> Destination,
                   amount |-> amount, signers |-> signers],
                  insecure_withdraw(accounts, vault, authority, Destination, amount, signers))
        /\ UNCHANGED ghost

SecureWithdraw ==
    \E vault \in VaultPdas, authority \in VaultWallets, amount \in VaultAmounts,
       signers \in VaultSignerSets :
        /\ Commit("secure_withdraw",
                  [vault |-> vault, authority |-> authority, destination |-> Destination,
                   amount |-> amount, signers |-> signers],
                  secure_withdraw(accounts, vault, authority, Destination, amount, signers))
        /\ UNCHANGED ghost

\* a plain System Program transfer sent by a wallet: anyone may fund any address
VaultTransfer ==
    \E from \in VaultWallets, to \in VaultAddresses :
        LET r == system_transfer(accounts, from, to, Rent, {from})
        IN  /\ from # to
            /\ r.ok
            /\ Commit("transfer", [from |-> from, to |-> to, amount |-> Rent], r)
            /\ UNCHANGED ghost

VaultNext ==
    \/ VaultInitialize
    \/ VaultDeposit
    \/ VulnerableWithdraw
    \/ SecureWithdraw
    \/ VaultTransfer

VaultSpec == VaultInit /\ [][VaultNext]_vars

----------------------------------------------------------------------------
(* Properties of the vault program (VaultSpec)                             *)
(***************************************************************************)

Called(op) == last.op = op
CallOk == last.result.ok
CallErr == IF last.result.ok THEN "none" ELSE last.result.err

\* the vault passed to the last call was created by initialize for the passed authority
VaultOfPassedAuthority ==
    /\ last.args.vault = get_vault_pda(last.args.authority)
    /\ last.pre[last.args.vault].owner = THIS_PROGRAM
    /\ last.pre[last.args.vault].data = Vault(last.args.authority, CanonicalBump)

\* the vault held the withdrawn amount above its rent
VaultFunded == last.pre[last.args.vault].lamports >= Rent + last.args.amount

LamportsUnchanged(a) == accounts[a].lamports = last.pre[a].lamports

\* the authority recorded in the vault passed to the last call signed the transaction
VaultAuthoritySigned ==
    /\ last.pre[last.args.vault].data.kind = "Vault"
    /\ last.pre[last.args.vault].data.authority \in last.args.signers

\* C13: secure_withdraw is rejected whenever the vault's authority has not signed the
\* transaction, and the vault's and the destination's lamports are then unchanged; when
\* the passed authority is the vault's own, the rejection is Anchor's AccountNotSigner.
C13_UnsignedWithdrawRejected ==
    /\ (Called("secure_withdraw") /\ ~VaultAuthoritySigned)
        => /\ ~CallOk
           /\ LamportsUnchanged(last.args.vault)
           /\ LamportsUnchanged(last.args.destination)
    /\ (Called("secure_withdraw") /\ VaultOfPassedAuthority
            /\ last.args.authority \notin last.args.signers)
        => CallErr = E_AccountNotSigner

\* only the attacker signs, passing the authority's pubkey, against a funded vault
C13_Witness ==
    /\ Called("secure_withdraw")
    /\ VaultOfPassedAuthority
    /\ VaultFunded
    /\ last.args.authority = Wallet("authority")
    /\ last.args.signers = {Wallet("attacker")}
    /\ CallErr = E_AccountNotSigner
    /\ LamportsUnchanged(last.args.vault)
    /\ LamportsUnchanged(last.args.destination)

\* C14: on an initialized vault that holds the deposited amount, secure_withdraw(amount)
\* signed by the authority succeeds and the destination's lamports strictly increase.
C14_AuthorizedWithdrawSucceeds ==
    (Called("secure_withdraw") /\ VaultOfPassedAuthority /\ VaultFunded
        /\ last.args.authority \in last.args.signers)
        => /\ CallOk
           /\ accounts[last.args.destination].lamports
                > last.pre[last.args.destination].lamports

\* C15: the insecure withdraw succeeds for a signer who is not the authority and passes
\* the authority's pubkey unsigned: the vault's lamports decrease, the destination's increase.
C15_InsecureWithdrawDrains ==
    (Called("vulnerable_withdraw") /\ VaultOfPassedAuthority /\ VaultFunded
        /\ last.args.authority \notin last.args.signers)
        => /\ CallOk
           /\ accounts[last.args.vault].lamports < last.pre[last.args.vault].lamports
           /\ accounts[last.args.destination].lamports
                > last.pre[last.args.destination].lamports

\* C16: on a vault created by initialize, deposit(amount) signed by the same authority,
\* who holds the amount, succeeds and moves amount lamports from the authority to the vault.
C16_DepositToExistingVault ==
    (Called("deposit") /\ VaultOfPassedAuthority
        /\ last.args.authority \in last.args.signers
        /\ last.pre[last.args.authority].lamports >= last.args.amount)
        => /\ CallOk
           /\ accounts[last.args.vault].lamports
                = last.pre[last.args.vault].lamports + last.args.amount
           /\ accounts[last.args.authority].lamports
                = last.pre[last.args.authority].lamports - last.args.amount

----------------------------------------------------------------------------
(* multisig-payer: a DAO whose treasury PDA is named as the rent payer     *)
(***************************************************************************)

MAX_TITLE_LEN == 64

\* votes cast in one behaviour (the counters are u64)
MaxVotes == 2

E_Unauthorized == "Unauthorized"
E_TitleTooLong == "TitleTooLong"
E_AlreadyExecuted == "AlreadyExecuted"

DaoWallets == {Wallet("creator"), Wallet("member")}
ProposalIds == {1, 2}
Title(n) == [i \in 1..n |-> "t"]
Titles == {Title(MAX_TITLE_LEN), Title(MAX_TITLE_LEN + 1)}

config_pda == find_program_address(<<"dao_config">>)
treasury_pda == find_program_address(<<"treasury", config_pda>>)
proposal_pda(config, proposal_id) ==
    find_program_address(<<"proposal", config, proposal_id>>)
ProposalPdas == {proposal_pda(config_pda, id) : id \in ProposalIds}
DaoAddresses == DaoWallets \cup {config_pda, treasury_pda} \cup ProposalPdas
\* the wallets that signed a transaction: one of them, or both
DaoSignerSets == (SUBSET DaoWallets) \ {{}}

\* state.rs
DaoConfig(authority, proposal_count, bump, is_initialized) ==
    [kind |-> "DaoConfig", authority |-> authority, proposal_count |-> proposal_count,
     bump |-> bump, is_initialized |-> is_initialized]
MultisigTreasury(dao, bump) == [kind |-> "MultisigTreasury", dao |-> dao, bump |-> bump]
Proposal(id, title, creator, yes_votes, no_votes, executed, bump) ==
    [kind |-> "Proposal", id |-> id, title |-> title, creator |-> creator,
     yes_votes |-> yes_votes, no_votes |-> no_votes, executed |-> executed, bump |-> bump]

\* the accounts as init leaves them, before the handler writes the fields
ZeroDaoConfig == DaoConfig(DefaultPubkey, 0, ZeroBump, FALSE)
ZeroMultisigTreasury == MultisigTreasury(DefaultPubkey, ZeroBump)
ZeroProposal == Proposal(0, <<>>, DefaultPubkey, 0, 0, FALSE, ZeroBump)

\* #[derive(Accounts)] Initialize: the creator pays for the config and the treasury
DaoInitialize_accounts(acc, creator, config, treasury, signers) ==
    IF ~is_signer(creator, signers) THEN Err(E_AccountNotSigner)
    ELSE IF config # find_program_address(<<"dao_config">>) THEN Err(E_ConstraintSeeds)
    ELSE
    LET c == anchor_init(acc, creator, config, ZeroDaoConfig, signers)
    IN  IF ~c.ok THEN c
        ELSE IF treasury # find_program_address(<<"treasury", config>>)
             THEN Err(E_ConstraintSeeds)
        ELSE anchor_init(c.accounts, creator, treasury, ZeroMultisigTreasury, signers)

\* Initialize::initialize
dao_initialize(acc, creator, config, treasury, signers) ==
    LET ctx == DaoInitialize_accounts(acc, creator, config, treasury, signers)
    IN  IF ~ctx.ok THEN ctx
        ELSE TxOk([ctx.accounts EXCEPT
                      ![config].data = DaoConfig(treasury, 0, CanonicalBump, TRUE),
                      ![treasury].data = MultisigTreasury(config, CanonicalBump)])

\* the seeds and authority constraints shared by both proposal contexts
dao_constraints(acc, treasury, config) ==
    IF ~check_seeds(treasury, <<"treasury", config>>, acc[treasury].data.bump)
    THEN Err(E_ConstraintSeeds)
    ELSE IF ~check_seeds(config, <<"dao_config">>, acc[config].data.bump)
    THEN Err(E_ConstraintSeeds)
    ELSE IF acc[config].data.authority # treasury THEN Err(E_Unauthorized)
    ELSE TxOk(acc)

\* #[derive(Accounts)] VulnerableCreateProposal: init with payer = treasury.  The
\* accounts that are not created are read in the order of their declaration (treasury,
\* config, creator), then the proposal is created, then the seeds and constraint of the
\* treasury and the config are checked
VulnerableCreateProposal_accounts(acc, treasury, config, proposal, creator, proposal_id, signers) ==
    LET t == check_account(acc, treasury, "MultisigTreasury")
        c == check_account(acc, config, "DaoConfig")
        created == anchor_init(acc, treasury, proposal, ZeroProposal, signers)
    IN  IF ~t.ok THEN t
        ELSE IF ~c.ok THEN c
        ELSE IF ~is_signer(creator, signers) THEN Err(E_AccountNotSigner)
        ELSE IF proposal # proposal_pda(config, proposal_id) THEN Err(E_ConstraintSeeds)
        ELSE IF ~created.ok THEN created
        ELSE IF ~dao_constraints(acc, treasury, config).ok
             THEN dao_constraints(acc, treasury, config)
        ELSE created

\* #[derive(Accounts)] SecureCreateProposal: init with payer = rent_payer
SecureCreateProposal_accounts(acc, rent_payer, creator, treasury, config, proposal, proposal_id, signers) ==
    LET t == check_account(acc, treasury, "MultisigTreasury")
        c == check_account(acc, config, "DaoConfig")
        created == anchor_init(acc, rent_payer, proposal, ZeroProposal, signers)
    IN  IF ~is_signer(rent_payer, signers) THEN Err(E_AccountNotSigner)
        ELSE IF ~is_signer(creator, signers) THEN Err(E_AccountNotSigner)
        ELSE IF ~t.ok THEN t
        ELSE IF ~c.ok THEN c
        ELSE IF proposal # proposal_pda(config, proposal_id) THEN Err(E_ConstraintSeeds)
        ELSE IF ~created.ok THEN created
        ELSE IF ~dao_constraints(acc, treasury, config).ok
             THEN dao_constraints(acc, treasury, config)
        ELSE created

\* create_proposal (the same body in both contexts); proposal_count is not touched
\* bug: a proposal is born executed
create_proposal_executed(acc, config, proposal, creator, proposal_id, title) ==
    IF ~(Len(title) <= MAX_TITLE_LEN) THEN Err(E_TitleTooLong)
    ELSE TxOk([acc EXCEPT
                  ![proposal].data =
                      Proposal(proposal_id, title, creator, 0, 0, TRUE, CanonicalBump)])
create_proposal(acc, config, proposal, creator, proposal_id, title) ==
    IF ~(Len(title) <= MAX_TITLE_LEN) THEN Err(E_TitleTooLong)
    ELSE TxOk([acc EXCEPT
                  ![proposal].data =
                      Proposal(proposal_id, title, creator, 0, 0, FALSE, CanonicalBump)])

vulnerable_create_proposal(acc, treasury, config, proposal, creator, proposal_id, title, signers) ==
    LET ctx == VulnerableCreateProposal_accounts(acc, treasury, config, proposal,
                                                 creator, proposal_id, signers)
    IN  IF ~ctx.ok THEN ctx
        ELSE create_proposal(ctx.accounts, config, proposal, creator, proposal_id, title)

secure_create_proposal(acc, rent_payer, creator, treasury, config, proposal, proposal_id, title, signers) ==
    LET ctx == SecureCreateProposal_accounts(acc, rent_payer, creator, treasury, config,
                                             proposal, proposal_id, signers)
    IN  IF ~ctx.ok THEN ctx
        ELSE create_proposal(ctx.accounts, config, proposal, creator, proposal_id, title)

\* #[derive(Accounts)] Vote: the voter signs, the proposal is a Proposal account
Vote_accounts(acc, voter, proposal, signers) ==
    IF ~is_signer(voter, signers) THEN Err(E_AccountNotSigner)
    ELSE check_account(acc, proposal, "Proposal")

\* bug: an executed proposal still takes votes
Vote_vote_unguarded(acc, proposal, approve) ==
    IF approve
    THEN TxOk([acc EXCEPT ![proposal].data.yes_votes = @ + 1])
    ELSE TxOk([acc EXCEPT ![proposal].data.no_votes = @ + 1])
\* Vote::vote
Vote_vote(acc, proposal, approve) ==
    IF acc[proposal].data.executed THEN Err(E_AlreadyExecuted)
    ELSE IF approve
         THEN TxOk([acc EXCEPT ![proposal].data.yes_votes = @ + 1])
         ELSE TxOk([acc EXCEPT ![proposal].data.no_votes = @ + 1])

\* the vote instruction
vote(acc, voter, proposal, approve, signers) ==
    LET ctx == Vote_accounts(acc, voter, proposal, signers)
    IN  IF ~ctx.ok THEN ctx ELSE Vote_vote(acc, proposal, approve)

\* proposals created so far
\* the calls of Vote::vote made on each proposal address, and the wallets that made them
NoProposals ==
    [created |-> 0,
     votes |-> [p \in ProposalPdas |-> 0],
     voters |-> {}]
RECURSIVE SumVotes(_, _)
SumVotes(votes, ps) ==
    IF ps = {} THEN 0
    ELSE LET p == CHOOSE q \in ps : TRUE IN votes[p] + SumVotes(votes, ps \ {p})
VotesCast == SumVotes(ghost.votes, ProposalPdas)
Counted(r) == [ghost EXCEPT !.created = IF r.ok THEN @ + 1 ELSE @]
Voted(ctx, voter, proposal) ==
    IF ctx.ok
    THEN [ghost EXCEPT !.votes[proposal] = @ + 1, !.voters = @ \cup {voter}]
    ELSE ghost

DaoInit ==
    /\ ChainIdle
    /\ accounts = [a \in DaoAddresses |->
                      IF a \in DaoWallets THEN SystemAccount(WalletLamports)
                      ELSE SystemAccount(0)]
    /\ ghost = NoProposals
    /\ last = NoCall

DaoInitialize ==
    \E creator \in DaoWallets, signers \in DaoSignerSets :
        /\ Commit("initialize",
                  [creator |-> creator, config |-> config_pda, treasury |-> treasury_pda,
                   signers |-> signers],
                  dao_initialize(accounts, creator, config_pda, treasury_pda, signers))
        /\ UNCHANGED ghost

VulnerableCreateProposal ==
    \E creator \in DaoWallets, proposal_id \in ProposalIds, title \in Titles,
       signers \in DaoSignerSets :
        LET proposal == proposal_pda(config_pda, proposal_id)
            r == vulnerable_create_proposal(accounts, treasury_pda, config_pda, proposal,
                                            creator, proposal_id, title, signers)
        IN  /\ Commit("vulnerable_create_proposal",
                      [treasury |-> treasury_pda, config |-> config_pda,
                       proposal |-> proposal, creator |-> creator,
                       proposal_id |-> proposal_id, title |-> title, signers |-> signers],
                      r)
            /\ ghost' = Counted(r)

SecureCreateProposal ==
    \E rent_payer \in DaoWallets, creator \in DaoWallets, proposal_id \in ProposalIds,
       title \in Titles, signers \in DaoSignerSets :
        LET proposal == proposal_pda(config_pda, proposal_id)
            r == secure_create_proposal(accounts, rent_payer, creator, treasury_pda,
                                        config_pda, proposal, proposal_id, title, signers)
        IN  /\ Commit("secure_create_proposal",
                      [rent_payer |-> rent_payer, treasury |-> treasury_pda,
                       config |-> config_pda, proposal |-> proposal, creator |-> creator,
                       proposal_id |-> proposal_id, title |-> title, signers |-> signers],
                      r)
            /\ ghost' = Counted(r)

Vote ==
    \E voter \in DaoWallets, proposal \in ProposalPdas, approve \in BOOLEAN,
       signers \in DaoSignerSets :
        /\ VotesCast < MaxVotes
        /\ Commit("vote",
                  [voter |-> voter, proposal |-> proposal, approve |-> approve,
                   signers |-> signers],
                  vote(accounts, voter, proposal, approve, signers))
        /\ ghost' = Voted(Vote_accounts(accounts, voter, proposal, signers),
                          voter, proposal)

\* a plain System Program transfer by which a wallet funds the treasury or a proposal address
DaoTransfer ==
    \E from \in DaoWallets, to \in {treasury_pda} \cup ProposalPdas :
        LET r == system_transfer(accounts, from, to, Rent, {from})
        IN  /\ from # to
            /\ r.ok
            /\ Commit("transfer", [from |-> from, to |-> to, amount |-> Rent], r)
            /\ UNCHANGED ghost

DaoNext ==
    \/ DaoInitialize
    \/ VulnerableCreateProposal
    \/ SecureCreateProposal
    \/ Vote
    \/ DaoTransfer

DaoSpec == DaoInit /\ [][DaoNext]_vars

----------------------------------------------------------------------------
(* Properties of the DAO program (DaoSpec)                                 *)
(***************************************************************************)

DaoInitialized == accounts[config_pda].data.kind = "DaoConfig"
IsProposal(acc, p) == acc[p].owner = THIS_PROGRAM /\ acc[p].data.kind = "Proposal"

\* C17: vulnerable_create_proposal fails in every reachable state of the DAO, whatever
\* the treasury holds, and leaves the proposal address as it was.
C17_VulnerableCreateAlwaysFails ==
    Called("vulnerable_create_proposal")
        => /\ ~CallOk
           /\ accounts[last.args.proposal] = last.pre[last.args.proposal]

\* C18: the proposal_count of the DAO's config equals the number of proposals created.
C18_ProposalCountMatches ==
    DaoInitialized => accounts[config_pda].data.proposal_count = ghost.created

----------------------------------------------------------------------------
(* account-griefing: stake PDAs with and without a nonce in the seeds      *)
(***************************************************************************)

\* nonces the user draws from (the nonce is a u64)
MaxNonce == 2
Nonces == 0..MaxNonce

StakeUser == Wallet("user")
StakeAttacker == Wallet("attacker")
StakeWallets == {StakeUser, StakeAttacker}
StakeSignerSets == {{w} : w \in StakeWallets}

\* the user holds the rent of one stake account and a lamport to deposit; the attacker
\* can pre-fund the stake address of every nonce but one
StakeUserLamports == Rent + 1
AttackerLamports == MaxNonce * Rent

\* u64::to_le_bytes
RECURSIVE le_bytes(_, _)
le_bytes(n, len) == IF len = 0 THEN <<>> ELSE <<n % 256>> \o le_bytes(n \div 256, len - 1)
to_le_bytes(n) == le_bytes(n, 8)

\* seeds = [b"stake", user] and seeds = [b"stake", user, nonce.to_le_bytes()]
vulnerable_stake_pda(user) == find_program_address(<<"stake", user>>)
secure_stake_pda(user, nonce) == find_program_address(<<"stake", user, to_le_bytes(nonce)>>)
SecureStakePdas == {secure_stake_pda(StakeUser, n) : n \in Nonces}
StakePdas == {vulnerable_stake_pda(StakeUser)} \cup SecureStakePdas
StakeAddresses == StakeWallets \cup StakePdas

\* amounts tried by the deposits: none, one lamport
StakeAmounts == {0, 1}

E_StakeInvalidAmount == "InvalidAmount"
E_ConstraintRaw == "ConstraintRaw"
E_ProgramFailedToComplete == "ProgramFailedToComplete"

\* state.rs
SecureStakeAccount(owner, amount, nonce, bump, is_initialized) ==
    [kind |-> "SecureStakeAccount", owner |-> owner, amount |-> amount, nonce |-> nonce,
     bump |-> bump, is_initialized |-> is_initialized]
ZeroSecureStakeAccount == SecureStakeAccount(DefaultPubkey, 0, 0, ZeroBump, FALSE)
\* the zeroed space create_account allocates, written by nobody
ZeroedData == [kind |-> "zeroed"]

\* #[derive(Accounts)] SecureCreateStake
SecureCreateStake_accounts(acc, user, stake_account, nonce, signers) ==
    IF ~is_signer(user, signers) THEN Err(E_AccountNotSigner)
    ELSE IF stake_account # secure_stake_pda(user, nonce) THEN Err(E_ConstraintSeeds)
    ELSE anchor_init(acc, user, stake_account, ZeroSecureStakeAccount, signers)

\* SecureCreateStake::create_stake
secure_create_stake_zero_nonce(acc, user, stake_account, nonce, signers) ==
    LET ctx == SecureCreateStake_accounts(acc, user, stake_account, nonce, signers)
    IN  IF ~ctx.ok THEN ctx
        ELSE TxOk([ctx.accounts EXCEPT ![stake_account].data =
                      SecureStakeAccount(user, 0, 0, CanonicalBump, TRUE)])
secure_create_stake(acc, user, stake_account, nonce, signers) ==
    LET ctx == SecureCreateStake_accounts(acc, user, stake_account, nonce, signers)
    IN  IF ~ctx.ok THEN ctx
        ELSE TxOk([ctx.accounts EXCEPT ![stake_account].data =
                      SecureStakeAccount(user, 0, nonce, CanonicalBump, TRUE)])

\* VulnerableCreateStake and its create_stake: a manual create_account CPI
vulnerable_create_stake(acc, user, stake_account, signers) ==
    IF ~is_signer(user, signers) THEN Err(E_AccountNotSigner)
    ELSE IF vulnerable_stake_pda(user) # stake_account THEN Err(E_Unauthorized)
    ELSE system_create_account(acc, user, stake_account, Rent, ZeroedData,
                               signers \cup {vulnerable_stake_pda(user)})

\* #[derive(Accounts)] VulnerableDeposit: the stake account is a StakeAccount at the
\* address of the stored bump, owned by the user
VulnerableDeposit_accounts(acc, user, stake_account, signers) ==
    LET loaded == check_account(acc, stake_account, "StakeAccount")
    IN  IF ~is_signer(user, signers) THEN Err(E_AccountNotSigner)
        ELSE IF ~loaded.ok THEN loaded
        ELSE IF ~check_seeds(stake_account, <<"stake", user>>, acc[stake_account].data.bump)
             THEN Err(E_ConstraintSeeds)
        ELSE IF acc[stake_account].data.owner # user THEN Err(E_ConstraintRaw)
        ELSE TxOk(acc)

\* VulnerableDeposit::deposit: transfer, then amount += amount (unwrap of checked_add)
vulnerable_deposit(acc, user, stake_account, amount, signers) ==
    LET ctx == VulnerableDeposit_accounts(acc, user, stake_account, signers)
        paid == system_transfer(acc, user, stake_account, amount, signers)
    IN  IF ~ctx.ok THEN ctx
        ELSE IF ~paid.ok THEN paid
        ELSE
        LET sum == u64_checked_add(acc[stake_account].data.amount, amount)
        IN  IF ~sum.some THEN Err(E_ProgramFailedToComplete)
            ELSE TxOk([paid.accounts EXCEPT ![stake_account].data.amount = sum.v])

\* #[derive(Accounts)] SecureDeposit: the stake account is a SecureStakeAccount at the
\* address of the stored nonce and bump, owned by the user
SecureDeposit_accounts(acc, user, stake_account, signers) ==
    LET loaded == check_account(acc, stake_account, "SecureStakeAccount")
    IN  IF ~is_signer(user, signers) THEN Err(E_AccountNotSigner)
        ELSE IF ~loaded.ok THEN loaded
        ELSE IF ~check_seeds(stake_account,
                             <<"stake", user, to_le_bytes(acc[stake_account].data.nonce)>>,
                             acc[stake_account].data.bump)
             THEN Err(E_ConstraintSeeds)
        ELSE IF acc[stake_account].data.owner # user THEN Err(E_Unauthorized)
        ELSE TxOk(acc)

\* SecureDeposit::deposit: amount > 0, transfer, then amount = amount.checked_add(amount)
secure_deposit(acc, user, stake_account, amount, signers) ==
    LET ctx == SecureDeposit_accounts(acc, user, stake_account, signers)
        paid == system_transfer(acc, user, stake_account, amount, signers)
    IN  IF ~ctx.ok THEN ctx
        ELSE IF ~(amount > 0) THEN Err(E_StakeInvalidAmount)
        ELSE IF ~paid.ok THEN paid
        ELSE
        LET sum == u64_checked_add(acc[stake_account].data.amount, amount)
        IN  IF ~sum.some THEN Err(E_StakeInvalidAmount)
            ELSE TxOk([paid.accounts EXCEPT ![stake_account].data.amount = sum.v])

StakeInit ==
    /\ ChainIdle
    /\ accounts = [a \in StakeAddresses |->
                      IF a = StakeUser THEN SystemAccount(StakeUserLamports)
                      ELSE IF a = StakeAttacker THEN SystemAccount(AttackerLamports)
                      ELSE SystemAccount(0)]
    /\ ghost = NoGhost
    /\ last = NoCall

SecureCreateStake ==
    \E user \in StakeWallets, nonce \in Nonces, signers \in StakeSignerSets :
        LET stake_account == secure_stake_pda(StakeUser, nonce)
        IN
        /\ Commit("secure_create_stake",
                  [user |-> user, stake_account |-> stake_account, nonce |-> nonce,
                   signers |-> signers],
                  secure_create_stake(accounts, user, stake_account, nonce, signers))
        /\ UNCHANGED ghost

VulnerableCreateStake ==
    \E user \in StakeWallets, signers \in StakeSignerSets :
        LET stake_account == vulnerable_stake_pda(StakeUser)
        IN
        /\ Commit("vulnerable_create_stake",
                  [user |-> user, stake_account |-> stake_account, signers |-> signers],
                  vulnerable_create_stake(accounts, user, stake_account, signers))
        /\ UNCHANGED ghost

\* deposits are made in the user's name, signed by the user or by the attacker
VulnerableDeposit ==
    \E user \in {StakeUser}, amount \in StakeAmounts, signers \in StakeSignerSets :
        LET stake_account == vulnerable_stake_pda(StakeUser)
            r == vulnerable_deposit(accounts, user, stake_account, amount, signers)
        IN
        /\ Commit("vulnerable_deposit",
                  [user |-> user, stake_account |-> stake_account, amount |-> amount,
                   signers |-> signers],
                  r)
        /\ UNCHANGED ghost

SecureDeposit ==
    \E user \in {StakeUser}, nonce \in Nonces, amount \in StakeAmounts,
       signers \in StakeSignerSets :
        LET stake_account == secure_stake_pda(StakeUser, nonce)
            r == secure_deposit(accounts, user, stake_account, amount, signers)
        IN
        /\ Commit("secure_deposit",
                  [user |-> user, stake_account |-> stake_account, amount |-> amount,
                   signers |-> signers],
                  r)
        /\ UNCHANGED ghost

\* a plain System Program transfer by which the attacker sends lamports to a stake address
StakeTransfer ==
    \E from \in {StakeAttacker}, to \in StakePdas :
        LET r == system_transfer(accounts, from, to, Rent, {from})
        IN  /\ from # to
            /\ r.ok
            /\ Commit("transfer", [from |-> from, to |-> to, amount |-> Rent], r)
            /\ UNCHANGED ghost

StakeNext ==
    \/ VulnerableCreateStake
    \/ VulnerableDeposit
    \/ SecureCreateStake
    \/ SecureDeposit
    \/ StakeTransfer

StakeSpec == StakeInit /\ [][StakeNext]_vars

(* Properties of the stake program (StakeSpec) *)

\* the attacker holds no key of the stake address the last call names, and it is unused
StakeAddressUnused == last.pre[last.args.stake_account].owner = SYSTEM_PROGRAM

\* C19: secure_create_stake, signed by a user who can pay the rent, for a nonce whose
\* stake address is not yet a stake account, succeeds whatever other stake addresses of
\* the user were pre-funded, and yields owner = user, amount = 0 and that nonce stored.
C19_GriefingResistance ==
    (Called("secure_create_stake")
        /\ last.args.user \in last.args.signers
        /\ last.args.stake_account = secure_stake_pda(last.args.user, last.args.nonce)
        /\ StakeAddressUnused
        /\ last.pre[last.args.user].lamports >= Rent)
        => /\ CallOk
           /\ accounts[last.args.stake_account].owner = THIS_PROGRAM
           /\ accounts[last.args.stake_account].data
                = SecureStakeAccount(last.args.user, 0, last.args.nonce, CanonicalBump, TRUE)

\* the attacker pre-funded the stake addresses of every other nonce; the user creates
\* the stake with the remaining nonce
C19_Witness ==
    /\ Called("secure_create_stake")
    /\ CallOk
    /\ last.args.user = StakeUser
    /\ last.args.nonce = MaxNonce
    /\ last.pre[last.args.stake_account].lamports = 0
    /\ \A n \in Nonces \ {MaxNonce} :
          /\ last.pre[secure_stake_pda(StakeUser, n)].lamports >= Rent
          /\ last.pre[secure_stake_pda(StakeUser, n)].owner = SYSTEM_PROGRAM
    /\ accounts[last.args.stake_account].data.owner = StakeUser
    /\ accounts[last.args.stake_account].data.amount = 0
    /\ accounts[last.args.stake_account].data.nonce = MaxNonce

----------------------------------------------------------------------------
(* Further properties of the engine as a function (FuzzSpec) *)

\* C21: secure_swap reports the first rejection in step order: InvalidAmount, the
\* narrowing MathOverflow, SlippageExceeded, InsufficientReserves, then the reserve-update
\* MathOverflow; a fill below min_out with reserve_x + amount_in beyond u64 is SlippageExceeded.
C21_ErrorPrecedence ==
    Done =>
        /\ (AmountIn = 0) => secure_result = Err(E_InvalidAmount)
        /\ (AmountIn > 0) =>
              IF ExactOut > U64_MAX THEN secure_result = Err(E_ResultTooLarge)
              ELSE IF ExactOut < MinOut THEN secure_result = Err(E_Slippage)
              ELSE IF ExactOut > ReserveY THEN secure_result = Err(E_InsufficientReserves)
              ELSE IF ReserveX + AmountIn > U64_MAX
                   THEN secure_result = Err(E_ReserveXOverflow)
              ELSE Succeeded

\* both the slippage and the reserve_x overflow conditions hold; slippage is reported
C21_Witness ==
    /\ Done /\ AmountIn > 0
    /\ ExactOut < MinOut
    /\ ReserveX + AmountIn > U64_MAX
    /\ secure_result = Err(E_Slippage)

\* the errors secure_swap can return
ReturnableErrors == {E_InvalidAmount, E_Slippage, E_ReserveXOverflow}

\* C24: the computed amount_out never exceeds reserve_y, so the narrowing failure,
\* InsufficientReserves and the reserve_y underflow are never returned: every error is
\* InvalidAmount, SlippageExceeded or the MathOverflow of reserve_x + amount_in.
C24_UnreachableErrors ==
    /\ (Done /\ AmountIn > 0) => ExactOut <= ReserveY
    /\ Failed => secure_result.err \in ReturnableErrors

\* the largest product the inputs allow: the quotient still fits, the call fails only at
\* the reserve_x update
C24_Witness ==
    /\ Failed
    /\ AmountIn = U64_MAX /\ ReserveY = U64_MAX /\ ReserveX > 0 /\ MinOut = 0
    /\ AmountIn * ReserveY > U64_MAX
    /\ ExactOut <= ReserveY
    /\ secure_result.err = E_ReserveXOverflow

\* C26: on every successful secure_swap the product of the new reserves is at least the
\* product of the old ones, in unbounded arithmetic.
C26_ConstantProduct ==
    Succeeded =>
        secure_result.new_reserve_x * secure_result.new_reserve_y >= ReserveX * ReserveY

\* a successful trade that pays out and whose truncated quotient leaves the product larger
C26_Witness ==
    /\ Succeeded /\ AmountIn > 0 /\ ReserveX > 0 /\ ReserveY > 0
    /\ secure_result.amount_out > 0
    /\ ExactRem # 0
    /\ secure_result.new_reserve_x * secure_result.new_reserve_y > ReserveX * ReserveY

----------------------------------------------------------------------------
(* Properties of sequences of trades (TradeSpec) *)

ReverseTrade == trades.direction = "y_for_x"
HasTraded == trades.direction # "none"
\* the reserve the last trade pays into and the one it pays out of, before and after
TradeIn == IF ReverseTrade THEN trades.reserve_y ELSE trades.reserve_x
TradeOut == IF ReverseTrade THEN trades.reserve_x ELSE trades.reserve_y
TradePreIn == IF ReverseTrade THEN trades.pre_y ELSE trades.pre_x
TradePreOut == IF ReverseTrade THEN trades.pre_x ELSE trades.pre_y

\* C22: after any sequence of secure_swap calls both reserves are u64 values reached
\* without wraparound: a successful swap adds amount_in and subtracts amount_out
\* exactly, and a swap whose input-side sum exceeds u64 (earlier checks passing) fails
\* with MathOverflow and leaves the reserves as they were.
C22_ReserveRepresentability ==
    /\ trades.reserve_x \in U64 /\ trades.reserve_y \in U64
    /\ (HasTraded /\ trades.result.ok)
        => /\ TradeIn = TradePreIn + trades.amount_in
           /\ TradeOut = TradePreOut - trades.result.amount_out
    /\ (HasTraded /\ trades.amount_in > 0
            /\ TradePreIn + trades.amount_in > U64_MAX
            /\ (trades.amount_in * TradePreOut)
                  \div (TradePreIn + trades.amount_in) >= trades.min_out)
        => /\ trades.result = Err(E_ReserveXOverflow)
           /\ trades.reserve_x = trades.pre_x
           /\ trades.reserve_y = trades.pre_y

\* after an earlier successful trade, a swap with no minimum whose input-side sum would
\* have wrapped to a smaller reserve
C22_Witness ==
    /\ trades.direction = "x_for_y"
    /\ trades.done # {}
    /\ trades.min_out = 0
    /\ trades.pre_x + trades.amount_in > U64_MAX
    /\ (trades.pre_x + trades.amount_in) % (U64_MAX + 1) < trades.pre_x
    /\ trades.result = Err(E_ReserveXOverflow)
    /\ trades.reserve_x = trades.pre_x

\* C25: starting from two positive reserves, both reserves are positive after any
\* sequence of successful secure swaps in either direction; no trade drains a side.
C25_PositiveReserves ==
    trades.reserve_x > 0 /\ trades.reserve_y > 0

\* after trades in both directions, a Y -> X trade that takes the X side down to its
\* last unit
C25_Witness ==
    /\ ReverseTrade
    /\ trades.done = {"x_for_y", "y_for_x"}
    /\ trades.result.ok
    /\ trades.result.amount_out > 0
    /\ trades.pre_x > 1
    /\ trades.reserve_x = 1
    /\ trades.reserve_y > trades.pre_y

----------------------------------------------------------------------------
(* Properties of split trades (SplitSpec) *)

SplitAllOk == split.first.ok /\ split.second.ok /\ split.single.ok
SplitPositive ==
    split.a1 > 0 /\ split.a2 > 0 /\ split.reserve_x > 0 /\ split.reserve_y > 0

\* C27: for a1, a2 > 0 and positive reserves, when the swap of a1, the swap of a2 against
\* the reserves it leaves, and the single swap of a1 + a2 all succeed, the two outputs
\* together are at most the output of the single swap.
C27_SplitNeverPaysMore ==
    (SplitAllOk /\ SplitPositive)
        => split.first.amount_out + split.second.amount_out <= split.single.amount_out

\* both parts pay out and truncating twice loses a unit against the single trade
C27_Witness ==
    /\ SplitAllOk /\ SplitPositive
    /\ split.first.amount_out > 0
    /\ split.second.amount_out > 0
    /\ split.first.amount_out + split.second.amount_out < split.single.amount_out

----------------------------------------------------------------------------
(* Further properties of the DAO program (DaoSpec) *)

\* the ledger after a vote on proposal p that only moved the counter approve selects
AfterVote(acc, p, approve) ==
    [acc EXCEPT ![p].data.yes_votes = IF approve THEN @ + 1 ELSE @,
                ![p].data.no_votes = IF approve THEN @ ELSE @ + 1]

\* C23: Vote::vote on an executed proposal fails with AlreadyExecuted and changes
\* nothing; on any other proposal it adds 1 to yes_votes if approve, to no_votes if
\* not, and leaves the other counter, id, title, creator, executed and bump as they were.
C23_VoteFrame ==
    /\ \A p \in ProposalPdas, approve \in BOOLEAN :
          IsProposal(accounts, p)
            => Vote_vote([accounts EXCEPT ![p].data.executed = TRUE], p, approve)
                 = Err(E_AlreadyExecuted)
    /\ (Called("vote") /\ ~CallOk) => accounts = last.pre
    /\ (Called("vote") /\ IsProposal(last.pre, last.args.proposal)
            /\ last.args.voter \in last.args.signers
            /\ ~last.pre[last.args.proposal].data.executed)
        => /\ CallOk
           /\ accounts = AfterVote(last.pre, last.args.proposal, last.args.approve)

\* a NO vote on a proposal that already holds a YES vote
C23_Witness ==
    /\ Called("vote") /\ CallOk
    /\ ~last.args.approve
    /\ last.pre[last.args.proposal].data.yes_votes > 0
    /\ accounts[last.args.proposal].data.yes_votes
         = last.pre[last.args.proposal].data.yes_votes
    /\ accounts[last.args.proposal].data.no_votes
         = last.pre[last.args.proposal].data.no_votes + 1
    /\ accounts[last.args.proposal].data.title
         = last.pre[last.args.proposal].data.title

\* C28: every Proposal has executed = false, vote never returns AlreadyExecuted, and
\* yes_votes + no_votes of a proposal is the number of calls of Vote::vote made on it,
\* however often the same voter votes.
C28_NeverExecuted ==
    /\ \A p \in ProposalPdas :
          IF IsProposal(accounts, p)
          THEN /\ ~accounts[p].data.executed
               /\ accounts[p].data.yes_votes + accounts[p].data.no_votes = ghost.votes[p]
          ELSE ghost.votes[p] = 0
    /\ Called("vote") => CallErr # E_AlreadyExecuted

\* one wallet cast every vote, at least two of them on the same proposal
C28_Witness ==
    /\ Called("vote") /\ CallOk
    /\ Cardinality(ghost.voters) = 1
    /\ ghost.votes[last.args.proposal] >= 2
    /\ accounts[last.args.proposal].data.yes_votes
         + accounts[last.args.proposal].data.no_votes = ghost.votes[last.args.proposal]
    /\ ~accounts[last.args.proposal].data.executed

====
